---- MODULE Spec2Model ----
(***************************************************************************)
(* Model of the resolved-issue aggregator (src/main.py) and of the Jira    *)
(* paging loop (src/pxc_jira.py).                                          *)
(*                                                                         *)
(* Python values are modelled as follows.                                  *)
(*   - a cell of a row is a record [kind, s, n]: a str (kind "str", text   *)
(*     s) or an int (kind "int", value n).  Rows read from a CSV file hold *)
(*     only str cells; rows built by issues_to_rows hold an int in the     *)
(*     points column.                                                      *)
(*   - a datetime is [ord, hour, minute], ord being the proleptic          *)
(*     Gregorian ordinal of the day (datetime.toordinal).                  *)
(*   - a day key (strftime '%d.%m.%Y') is the tuple <<dd, mm, yyyy>>.      *)
(*   - a float that is a sum of ints is the integer; a quotient is the     *)
(*     reduced fraction <<numerator, denominator>> (rounding of the last   *)
(*     binary digit is not modelled).                                      *)
(*   - sequences are 1-based, so a column index is Python's index + 1 and  *)
(*     0 stands for "not found".                                           *)
(***************************************************************************)
EXTENDS Integers, Sequences, FiniteSets, TLC

VARIABLES
    rows,           \* run_calculations: header row followed by the data rows
    config,         \* run_calculations: column name -> column index
    pc,             \* position in run_calculations / generate_rows / get_issues
    i,              \* calc_report_values: index of the next data row
    report_values,  \* day key -> values of the day
    err,            \* the exception that ended the run ("" when none)
    files,          \* output file name -> rows written (only opened files)
    start_date,     \* generate_rows: first day of the series
    end_date,       \* generate_rows: last day of the series
    daycount,       \* daterange: n, the number of days already yielded
    rowcount,       \* generate_rows: rowcount
    windows,        \* generate_rows: the six sliding windows
    out,            \* generate_rows: the rows yielded so far
    server,         \* the result list of the JQL query on the Jira server
    issues,         \* get_issues: the page the last search returned
    start,          \* get_issues: startAt of the next request
    result          \* get_issues: the issues collected so far

vars == <<rows, config, pc, i, report_values, err, files, start_date, end_date,
          daycount, rowcount, windows, out, server, issues, start, result>>

runVars == <<rows, config, i, err, files>>
seriesVars == <<start_date, end_date, daycount, rowcount, windows, out>>
pagingVars == <<server, issues, start, result>>

(***************************************************************************)
(* Bounds of the model.                                                    *)
(***************************************************************************)
MaxRows == 2        \* data rows of an input
MaxSeriesRows == 2  \* data rows behind the aggregate of a time series
MaxSpan == 29       \* largest (end_date - start_date).days of a time series
MaxIssues == 4      \* length of the server's result list
MaxPage == 3        \* largest page the server returns

(***************************************************************************)
(* Program constants.                                                      *)
(***************************************************************************)
POINTS_THRESHOLD == 5
MOVING_AVG_INTERVAL == 28

RESOLVED_COL == "date"
ISSUETYPE_COL == "type"
POINTS_COL == "points"
KEY_COL == "key"
BOARD_COL == "bdate"

(***************************************************************************)
(* Cells and small helpers.                                                *)
(***************************************************************************)
StrCell(s) == [kind |-> "str", s |-> s, n |-> 0]
IntCell(n) == [kind |-> "int", s |-> "", n |-> n]

Max2(a, b) == IF a >= b THEN a ELSE b

RECURSIVE SumSeq(_)
SumSeq(s) == IF s = <<>> THEN 0 ELSE Head(s) + SumSeq(Tail(s))

RECURSIVE Gcd(_, _)
Gcd(a, b) == IF b = 0 THEN a ELSE Gcd(b, a % b)

\* a / b for b # 0 and a, b >= 0, as a reduced fraction
Frac(a, b) == LET g == Gcd(a, b) IN <<a \div g, b \div g>>

(***************************************************************************)
(* The calendar of datetime.                                               *)
(***************************************************************************)
IsLeap(y) == y % 4 = 0 /\ (y % 100 # 0 \/ y % 400 = 0)

DaysInMonth(y, m) ==
    IF m = 2 THEN (IF IsLeap(y) THEN 29 ELSE 28)
    ELSE IF m \in {4, 6, 9, 11} THEN 30 ELSE 31

DaysBeforeYear(y) ==
    (y - 1) * 365 + ((y - 1) \div 4) - ((y - 1) \div 100) + ((y - 1) \div 400)

\* the days of the year before the first of month m
DaysBeforeMonth(y, m) ==
    <<0, 31, 59, 90, 120, 151, 181, 212, 243, 273, 304, 334>>[m]
        + (IF m > 2 /\ IsLeap(y) THEN 1 ELSE 0)

ToOrdinal(y, m, d) == DaysBeforeYear(y) + DaysBeforeMonth(y, m) + d

RECURSIVE YearOfOrdinal(_, _)
YearOfOrdinal(n, y) ==
    IF n <= DaysBeforeYear(y + 1) THEN y ELSE YearOfOrdinal(n, y + 1)

RECURSIVE MonthOfDay(_, _, _)
MonthOfDay(y, dayOfYear, m) ==
    IF dayOfYear <= DaysBeforeMonth(y, m) + DaysInMonth(y, m) THEN m
    ELSE MonthOfDay(y, dayOfYear, m + 1)

\* <<dd, mm, yyyy>> of an ordinal (datetime.fromordinal)
FromOrdinal(n) ==
    LET y == YearOfOrdinal(n, ((n - 1) \div 366) + 1)
        doy == n - DaysBeforeYear(y)
        m == MonthOfDay(y, doy, 1)
    IN  <<doy - DaysBeforeMonth(y, m), m, y>>

\* d + timedelta(k)
AddDays(d, k) == [d EXCEPT !.ord = @ + k]

\* (a - b).days: the floor of the difference in days
DeltaDays(a, b) ==
    ((a.ord * 1440 + a.hour * 60 + a.minute)
        - (b.ord * 1440 + b.hour * 60 + b.minute)) \div 1440

(***************************************************************************)
(* strptime(text, '%d.%m.%y %H:%M').  DateFields splits the texts that     *)
(* occur in the model into their numeric fields; a text that does not      *)
(* match the format has no fields.  The fields are then validated against  *)
(* the calendar, and %y is a two-digit year (69..99 -> 19xx, 0..68 ->      *)
(* 20xx).                                                                  *)
(***************************************************************************)
DateFields(s) ==
    CASE s = "29.12.20 08:00" -> <<29, 12, 20, 8, 0>>
      [] s = "30.12.20 00:00" -> <<30, 12, 20, 0, 0>>
      [] s = "30.12.20 17:45" -> <<30, 12, 20, 17, 45>>
      [] s = "31.12.20 10:30" -> <<31, 12, 20, 10, 30>>
      [] s = "01.01.21 07:00" -> <<1, 1, 21, 7, 0>>
      [] s = "01.01.21 09:15" -> <<1, 1, 21, 9, 15>>
      [] s = "27.01.21 12:00" -> <<27, 1, 21, 12, 0>>
      [] s = "28.01.21 16:20" -> <<28, 1, 21, 16, 20>>
      [] s = "31.02.21 10:00" -> <<31, 2, 21, 10, 0>>
      [] OTHER -> <<>>

strptime(cell) ==
    LET f == DateFields(cell.s)
        y == IF f[3] >= 69 THEN 1900 + f[3] ELSE 2000 + f[3]
    IN  IF cell.kind # "str" THEN [ok |-> FALSE, exc |-> "TypeError"]
        ELSE IF f = <<>> THEN [ok |-> FALSE, exc |-> "ValueError"]
        ELSE IF ~(/\ f[2] \in 1..12
                  /\ f[1] \in 1..DaysInMonth(y, f[2])
                  /\ f[4] \in 0..23
                  /\ f[5] \in 0..59)
             THEN [ok |-> FALSE, exc |-> "ValueError"]
        ELSE [ok |-> TRUE,
              dt |-> [ord |-> ToOrdinal(y, f[2], f[1]), hour |-> f[4], minute |-> f[5]]]

\* str.lower() on the issue type names that occur
lower(s) ==
    CASE s = "Bug" -> "bug"
      [] s = "Task" -> "task"
      [] s = "Story" -> "story"
      [] s = "Epic" -> "epic"
      [] OTHER -> s

\* float(text) on the point texts that occur
ParseFloat(s) ==
    CASE s = "0" -> 0
      [] s = "8" -> 8
      [] OTHER -> 0

(***************************************************************************)
(* A Python dict: its keys in insertion order and its mapping.  Two dicts  *)
(* are equal (==) when their mappings are; iteration follows the order.    *)
(***************************************************************************)
EmptyDict == [order |-> <<>>, at |-> <<>>]

Keys(d) == DOMAIN d.at

\* d[k] = v in place of d.setdefault(k, v)
setdefault_overwriting(d, k, v) ==
    [order |-> IF k \in Keys(d) THEN d.order ELSE Append(d.order, k),
     at |-> (k :> v) @@ d.at]

\* d.setdefault(k, v) as the dict afterwards
setdefault(d, k, v) ==
    IF k \in Keys(d) THEN d
    ELSE [order |-> Append(d.order, k), at |-> (k :> v) @@ d.at]

\* d[k] = v for a key that is present
Store(d, k, v) == [d EXCEPT !.at = [@ EXCEPT ![k] = v]]

\* sorted(S) of a finite set of integers
RECURSIVE sorted(_)
sorted(S) ==
    IF S = {} THEN <<>>
    ELSE LET m == CHOOSE x \in S : \A y \in S : x <= y
         IN  <<m>> \o sorted(S \ {m})

(***************************************************************************)
(* Column detection and the getters of a row.                              *)
(***************************************************************************)
\* row.index(text) + 1, or 0 where find_column prints and exits
find_column(row, text) ==
    IF \E j \in 1..Len(row) : row[j] = StrCell(text)
    THEN CHOOSE j \in 1..Len(row) :
            /\ row[j] = StrCell(text)
            /\ \A k \in 1..(j - 1) : row[k] # StrCell(text)
    ELSE 0

column_configuration(row) ==
    (RESOLVED_COL :> find_column(row, "Resolved"))
    @@ (ISSUETYPE_COL :> find_column(row, "Issue Type"))
    @@ (POINTS_COL :> find_column(row, "Custom field (Story Points)"))
    @@ (KEY_COL :> find_column(row, "Issue key"))
    @@ (BOARD_COL :> find_column(row, "board enter date"))

round_down_time(datet) == [datet EXCEPT !.hour = 0, !.minute = 0]

get_issue_type(row, cfg) == lower(row[cfg[ISSUETYPE_COL]].s)

get_issue_key(row, cfg) == row[cfg[KEY_COL]].s

get_points(row, cfg) == row[cfg[POINTS_COL]]

day_key(d) == FromOrdinal(d.ord)

\* the parsed date rounded down, or the exception of strptime
get_resolved_date(row, cfg) ==
    LET r == strptime(row[cfg[RESOLVED_COL]])
    IN  IF r.ok THEN [ok |-> TRUE, dt |-> round_down_time(r.dt)] ELSE r

get_board_enter_date(row, cfg) ==
    LET r == strptime(row[cfg[BOARD_COL]])
    IN  IF r.ok THEN [ok |-> TRUE, dt |-> round_down_time(r.dt)] ELSE r

\* a start date taken from the last data row
get_start_date_of_last_row(rws, cfg) == get_resolved_date(rws[Len(rws)], cfg).dt

\* the date of the first data row; row 0 of the source is the heading
get_start_date(rws, cfg) == get_resolved_date(rws[2], cfg).dt

get_end_date(rws, cfg) == get_resolved_date(rws[Len(rws)], cfg).dt

(***************************************************************************)
(* The values of a day.  The two lists of empty_dict are objects;          *)
(* dict.copy() is shallow, so a copy holds references to the same two      *)
(* lists.  A day is modelled as its three dicts, whose list fields hold    *)
(* references, and the list objects the references name.                   *)
(***************************************************************************)
Types == {"bug", "story", "task"}

ListFields == {"board_days", "days_per_point"}

\* the list object that the copy of empty_dict made for issue type t refers to
CopiedList(t, f) == <<"empty_dict", f>>

new_day_values ==
    [dicts |-> [t \in Types |->
                  [count |-> 0, points |-> 0,
                   board_days |-> CopiedList(t, "board_days"),
                   days_per_point |-> CopiedList(t, "days_per_point")]],
     lists |-> [r \in {CopiedList(t, f) : t \in Types, f \in ListFields} |-> <<>>]]

\* values[t]['board_days'] and values[t]['days_per_point']
board_days(values, t) == values.lists[values.dicts[t].board_days]
days_per_point(values, t) == values.lists[values.dicts[t].days_per_point]

\* round(a / b, 1) for b > 0, in tenths (ties to even)
RoundTenths(a, b) ==
    LET q == (10 * a) \div b
        r == (10 * a) - q * b
    IN  IF 2 * r < b THEN q
        ELSE IF 2 * r > b THEN q + 1
        ELSE IF q % 2 = 0 THEN q ELSE q + 1

\* p != '' and p != 0
HasPoints(p) == IF p.kind = "str" THEN p.s # "" ELSE p.n # 0

\* float(p)
float(p) == IF p.kind = "str" THEN ParseFloat(p.s) ELSE p.n

(***************************************************************************)
(* process_row: the dict after the call and the exception that ended it    *)
(* ("" when it returned).  The mutations made before an exception stay.    *)
(***************************************************************************)
process_row(row, rv, cfg) ==
    LET issue_type == get_issue_type(row, cfg)
        res == get_resolved_date(row, cfg)
    IN  IF ~res.ok THEN [rv |-> rv, exc |-> res.exc]
        ELSE
        LET key == day_key(res.dt)
            rv1 == setdefault(rv, key, new_day_values)
            v1 == rv1.at[key]
        IN  IF issue_type \notin DOMAIN v1.dicts THEN [rv |-> rv1, exc |-> "KeyError"]
            ELSE
            LET v2 == [v1 EXCEPT !.dicts[issue_type].count = @ + 1]
                brd == get_board_enter_date(row, cfg)
            IN  IF ~brd.ok THEN [rv |-> Store(rv1, key, v2), exc |-> brd.exc]
                ELSE
                LET days == DeltaDays(res.dt, brd.dt) + 1
                    v3 == [v2 EXCEPT !.lists[v2.dicts[issue_type].board_days] =
                              Append(@, [issue_key |-> get_issue_key(row, cfg),
                                         days |-> days])]
                    p == get_points(row, cfg)
                IN  IF ~HasPoints(p) THEN [rv |-> Store(rv1, key, v3), exc |-> ""]
                    ELSE
                    LET v4 == [v3 EXCEPT !.dicts[issue_type].points = @ + float(p)]
                    IN  IF p.kind = "str"
                        THEN [rv |-> Store(rv1, key, v4), exc |-> "TypeError"]
                        ELSE
                        LET v5 == [v4 EXCEPT !.lists[v4.dicts[issue_type].days_per_point] =
                                      Append(@, [issue_key |-> get_issue_key(row, cfg),
                                                 days |-> days,
                                                 points |-> p.n,
                                                 dpt |-> RoundTenths(days, p.n)])]
                        IN  [rv |-> Store(rv1, key, v5), exc |-> ""]

\* calc_report_values from data row k on, stopping at the first exception
RECURSIVE calc_from(_, _, _, _)
calc_from(rws, cfg, k, rv) ==
    IF k > Len(rws) THEN [rv |-> rv, exc |-> ""]
    ELSE LET r == process_row(rws[k], rv, cfg)
         IN  IF r.exc # "" THEN r ELSE calc_from(rws, cfg, k + 1, r.rv)

calc_report_values(rws, cfg) == calc_from(rws, cfg, 2, EmptyDict)

(***************************************************************************)
(* The time series and its moving averages.                                *)
(***************************************************************************)
csv_headline_conv ==
    <<"date", "bug_count", "bug_points", "task_count", "task_points", "story_count",
      "story_points", "avg_bug_count", "avg_bug_points", "avg_task_count",
      "avg_task_points", "avg_story_count", "avg_story_points", "bug p/c", "task p/c",
      "story p/c">>

csv_headline_dist == <<"points", "bug", "task", "story">>

serialize_day_values(val) ==
    <<val.dicts["bug"].count, val.dicts["bug"].points,
      val.dicts["task"].count, val.dicts["task"].points,
      val.dicts["story"].count, val.dicts["story"].points>>

\* a range that leaves out the last day
daterange_len_exclusive(date_from, date_to) == Max2(0, DeltaDays(date_to, date_from))

\* len(range(int((date_to - date_from).days) + 1))
daterange_len(date_from, date_to) == Max2(0, DeltaDays(date_to, date_from) + 1)

\* the n-th value of daterange (n = 0 the first)
daterange_at(date_from, n) == AddDays(date_from, n)

\* report_values.get(key, new_day_values())
get_or_new(rv, key) == IF key \in Keys(rv) THEN rv.at[key] ELSE new_day_values

\* the row generate_timeseries yields for day d: the key and the six raw values
timeseries_row(rv, d) ==
    [date |-> day_key(d), raw |-> serialize_day_values(get_or_new(rv, day_key(d)))]

\* the quotient the other way round
pair_relation_swapped(cnt, pts) ==
    IF cnt[1] = 0 THEN <<0, 1>> ELSE Frac(cnt[1] * pts[2], cnt[2] * pts[1])

\* pairs[i] / pairs[i - 1] of two averages, 0.0 if the denominator is 0
pair_relation(cnt, pts) ==
    IF cnt[1] = 0 THEN <<0, 1>> ELSE Frac(pts[1] * cnt[2], pts[2] * cnt[1])

calculate_pairwise_relations(pairs) ==
    [j \in 1..(Len(pairs) \div 2) |-> pair_relation(pairs[2 * j - 1], pairs[2 * j])]

\* a window that is full one row late
window_full_late(rc) == rc > MOVING_AVG_INTERVAL

\* whether the window has sufficient rows
window_full(rc) == rc >= MOVING_AVG_INTERVAL

\* the average appended for one column, from its window extended by the day
window_avg(w, rc) ==
    IF window_full(rc) THEN Frac(SumSeq(w), MOVING_AVG_INTERVAL) ELSE <<0, 1>>

\* the window after the row: shifted by one day once it is full
window_next(w, rc) == IF window_full(rc) THEN Tail(w) ELSE w

\* one iteration of the loop of generate_rows over the row d of the time series:
\* the row yielded, the windows and rowcount afterwards
generate_rows_step(d, wins, rc) ==
    LET ext == [c \in 1..6 |-> Append(wins[c], d.raw[c])]
        avg == [c \in 1..6 |-> window_avg(ext[c], rc)]
    IN  [row |-> [date |-> d.date, raw |-> d.raw, avg |-> avg,
                  rel |-> calculate_pairwise_relations(avg)],
         windows |-> [c \in 1..6 |-> window_next(ext[c], rc)],
         rowcount |-> rc + 1]

\* list(generate_rows(...)) from the n-th day on
RECURSIVE generate_rows_from(_, _, _, _, _, _)
generate_rows_from(rv, date_from, date_to, n, wins, rc) ==
    IF n >= daterange_len(date_from, date_to) THEN <<>>
    ELSE LET st == generate_rows_step(timeseries_row(rv, daterange_at(date_from, n)),
                                      wins, rc)
         IN  <<st.row>> \o generate_rows_from(rv, date_from, date_to, n + 1,
                                              st.windows, st.rowcount)

generate_rows(rv, date_from, date_to) ==
    generate_rows_from(rv, date_from, date_to, 0, [c \in 1..6 |-> <<>>], 1)

(***************************************************************************)
(* The distributions and listings.                                         *)
(***************************************************************************)
\* the position of an issue type in ['bug', 'task', 'story'], plus 1
DistTypes == <<"bug", "task", "story">>

\* dist[p][i] += count of the bucket in place of += 1
RECURSIVE dist_types_per_issue(_, _, _)
dist_types_per_issue(dist, values, k) ==
    IF k > Len(DistTypes) THEN dist
    ELSE LET p == values.dicts[DistTypes[k]].points
         IN  IF p > 0
             THEN LET d1 == setdefault(dist, p, <<0, 0, 0>>)
                  IN  dist_types_per_issue(
                          Store(d1, p, [d1.at[p] EXCEPT
                                           ![k] = @ + values.dicts[DistTypes[k]].count]),
                          values, k + 1)
             ELSE dist_types_per_issue(dist, values, k + 1)

RECURSIVE dist_types(_, _, _)
dist_types(dist, values, k) ==
    IF k > Len(DistTypes) THEN dist
    ELSE LET p == values.dicts[DistTypes[k]].points
         IN  IF p > 0
             THEN LET d1 == setdefault(dist, p, <<0, 0, 0>>)
                  IN  dist_types(Store(d1, p, [d1.at[p] EXCEPT ![k] = @ + 1]),
                                 values, k + 1)
             ELSE dist_types(dist, values, k + 1)

RECURSIVE dist_days(_, _, _)
dist_days(dist, rv, n) ==
    IF n > Len(rv.order) THEN dist
    ELSE dist_days(dist_types(dist, rv.at[rv.order[n]], 1), rv, n + 1)

generate_distribution(rv) == dist_days(EmptyDict, rv, 1)

\* the issue types of generate_days_distribution, in the order of its loop
DaysDistTypes == <<"story", "task">>

\* the loop over issue['board_days'] for the points p
RECURSIVE days_dist_entries(_, _, _)
days_dist_entries(res, p, lst) ==
    IF lst = <<>> THEN res
    ELSE LET r1 == setdefault(res, p, EmptyDict)
             in1 == setdefault(r1.at[p], Head(lst).days, 0)
             in2 == Store(in1, Head(lst).days, in1.at[Head(lst).days] + 1)
         IN  days_dist_entries(Store(r1, p, in2), p, Tail(lst))

RECURSIVE days_dist_types(_, _, _)
days_dist_types(res, values, k) ==
    IF k > Len(DaysDistTypes) THEN res
    ELSE LET p == values.dicts[DaysDistTypes[k]].points
         IN  IF p > 0
             THEN days_dist_types(
                      days_dist_entries(res, p, board_days(values, DaysDistTypes[k])),
                      values, k + 1)
             ELSE days_dist_types(res, values, k + 1)

RECURSIVE days_dist_days(_, _, _)
days_dist_days(res, rv, n) ==
    IF n > Len(rv.order) THEN res
    ELSE days_dist_days(days_dist_types(res, rv.at[rv.order[n]], 1), rv, n + 1)

generate_days_distribution(rv) == days_dist_days(EmptyDict, rv, 1)

RECURSIVE generate_board_days_from(_, _, _)
generate_board_days_from(rv, issue_type, n) ==
    IF n > Len(rv.order) THEN <<>>
    ELSE LET v == rv.order[n]
             bdays == board_days(rv.at[v], issue_type)
         IN  [k \in 1..Len(bdays) |->
                 [date |-> v, days |-> bdays[k].days, issue_key |-> bdays[k].issue_key]]
             \o generate_board_days_from(rv, issue_type, n + 1)

generate_board_days(rv, issue_type) == generate_board_days_from(rv, issue_type, 1)

RECURSIVE generate_days_per_point_from(_, _, _)
generate_days_per_point_from(rv, issue_type, n) ==
    IF n > Len(rv.order) THEN <<>>
    ELSE LET v == rv.order[n]
             bdays == days_per_point(rv.at[v], issue_type)
         IN  [k \in 1..Len(bdays) |->
                 [date |-> v, dpt |-> bdays[k].dpt, points |-> bdays[k].points,
                  days |-> bdays[k].days, issue_key |-> bdays[k].issue_key]]
             \o generate_days_per_point_from(rv, issue_type, n + 1)

generate_days_per_point(rv, issue_type) == generate_days_per_point_from(rv, issue_type, 1)

\* sorted(dist) and the value of each key
serialize_distribution(dist) ==
    LET ks == sorted(Keys(dist))
    IN  [k \in 1..Len(ks) |-> [points |-> ks[k], counts |-> dist.at[ks[k]]]]

\* the blocks write_sd_distribution writes: the pairs of a block in insertion order
serialize_sd_distribution(dist) ==
    LET ks == sorted(Keys(dist))
    IN  [k \in 1..Len(ks) |->
            [points |-> ks[k],
             pairs |-> [j \in 1..Len(dist.at[ks[k]].order) |->
                           <<dist.at[ks[k]].order[j],
                             dist.at[ks[k]].at[dist.at[ks[k]].order[j]]>>]]]

\* find_big_points from data row k on: the list and the exception that ended it
RECURSIVE find_big_points_from(_, _, _)
find_big_points_from(rws, cfg, k) ==
    IF k > Len(rws) THEN [biggies |-> <<>>, exc |-> ""]
    ELSE LET p == get_points(rws[k], cfg)
             rest == find_big_points_from(rws, cfg, k + 1)
         IN  IF p.kind = "str" THEN [biggies |-> <<>>, exc |-> "TypeError"]
             ELSE IF p.n > POINTS_THRESHOLD
             THEN [biggies |->
                      <<[date |-> day_key(get_resolved_date(rws[k], cfg).dt),
                         type |-> get_issue_type(rws[k], cfg),
                         points |-> p.n,
                         URL |-> get_issue_key(rws[k], cfg)]>> \o rest.biggies,
                   exc |-> rest.exc]
             ELSE rest

find_big_points(rws, cfg) == find_big_points_from(rws, cfg, 2)

(***************************************************************************)
(* The inputs of a run.  jira_online builds a fixed header and rows whose  *)
(* points are ints and whose dates format_data_date has formatted; a CSV   *)
(* export holds text only, in whatever column order, and may lack a column *)
(* or hold a malformed field.                                              *)
(***************************************************************************)
JiraHeader ==
    <<StrCell("Issue key"), StrCell("Issue id"), StrCell("Issue Type"),
      StrCell("Custom field (Story Points)"), StrCell("Resolved"),
      StrCell("board enter date")>>

CsvHeader ==
    <<StrCell("Issue Type"), StrCell("Issue key"), StrCell("Resolved"),
      StrCell("Custom field (Story Points)"), StrCell("board enter date")>>

CsvHeaderNoBoard ==
    <<StrCell("Issue Type"), StrCell("Issue key"), StrCell("Resolved"),
      StrCell("Custom field (Story Points)")>>

Headers == {JiraHeader, CsvHeader, CsvHeaderNoBoard}

IssueKey(k) ==
    CASE k = 1 -> "SCS-1"
      [] k = 2 -> "SCS-2"
      [] k = 3 -> "SCS-3"
      [] k = 4 -> "SCS-4"
      [] OTHER -> "SCS-5"

\* the cells of the k-th data row under a header, from the values of its fields
MakeRow(hdr, k, f) ==
    [j \in 1..Len(hdr) |->
        CASE hdr[j].s = "Issue key" -> StrCell(IssueKey(k))
          [] hdr[j].s = "Issue id" -> StrCell(IssueKey(k))
          [] hdr[j].s = "Issue Type" -> StrCell(f.type)
          [] hdr[j].s = "Custom field (Story Points)" -> f.points
          [] hdr[j].s = "Resolved" -> StrCell(f.resolved)
          [] hdr[j].s = "board enter date" -> StrCell(f.board)]

JiraFields ==
    [type : {"Bug", "Task", "Story"},
     points : {IntCell(0), IntCell(8)},
     resolved : {"31.12.20 10:30", "01.01.21 09:15"},
     board : {"29.12.20 08:00", "01.01.21 07:00"}]

CsvFields ==
    [type : {"Bug", "Epic"},
     points : {StrCell(""), StrCell("0"), StrCell("8")},
     resolved : {"31.12.20 10:30", "31.02.21 10:00"},
     board : {"29.12.20 08:00", "2020-12-29T08:00"}]

FieldsOf(hdr) == IF hdr = JiraHeader THEN JiraFields ELSE CsvFields

\* the input with the header and one data row for each element of fs
MakeInput(hdr, fs) == <<hdr>> \o [k \in 1..Len(fs) |-> MakeRow(hdr, k, fs[k])]

(***************************************************************************)
(* run_calculations as a state machine.  pc names the call that comes      *)
(* next; "exit" is exit(), "failed" an uncaught exception, "done" the      *)
(* return.                                                                 *)
(***************************************************************************)
NoDate == [ord |-> 0, hour |-> 0, minute |-> 0]

RunIdle ==
    /\ rows = <<>> /\ config = <<>> /\ i = 0 /\ err = "" /\ files = <<>>

SeriesIdle ==
    /\ start_date = NoDate /\ end_date = NoDate /\ daycount = 0 /\ rowcount = 0
    /\ windows = <<>> /\ out = <<>>

PagingIdle ==
    /\ server = <<>> /\ issues = <<>> /\ start = 0 /\ result = <<>>

Init ==
    /\ \/ rows = <<>>
       \/ \E hdr \in Headers : \E n \in 0..MaxRows : \E fs \in [1..n -> FieldsOf(hdr)] :
            rows = MakeInput(hdr, fs)
    /\ config = <<>>
    /\ pc = "start"
    /\ i = 0
    /\ report_values = EmptyDict
    /\ err = ""
    /\ files = <<>>
    /\ SeriesIdle
    /\ PagingIdle

\* open(name, "w") and the rows written
WriteFile(name, content) == files' = (name :> content) @@ files

\* len(rows) > 1: column_configuration, which exits on a missing column
ColumnConfiguration ==
    /\ pc = "start"
    /\ Len(rows) > 1
    /\ LET cfg == column_configuration(rows[1])
       IN  IF \E c \in DOMAIN cfg : cfg[c] = 0
           THEN /\ pc' = "exit"
                /\ err' = "SystemExit(1)"
                /\ UNCHANGED <<config, i>>
           ELSE /\ pc' = "calc_report_values"
                /\ config' = cfg
                /\ i' = 2
                /\ err' = err
    /\ UNCHANGED <<rows, report_values, files, seriesVars, pagingVars>>

\* 'Input file has no data, exiting'
NoData ==
    /\ pc = "start"
    /\ Len(rows) <= 1
    /\ pc' = "exit"
    /\ err' = "SystemExit(0)"
    /\ UNCHANGED <<rows, config, i, report_values, files, seriesVars, pagingVars>>

\* one iteration of a loop that skips a row that raises
ProcessRowSkipping ==
    /\ pc = "calc_report_values"
    /\ i <= Len(rows)
    /\ LET r == process_row(rows[i], report_values, config)
       IN  /\ report_values' = r.rv
           /\ err' = err
           /\ i' = i + 1
           /\ pc' = IF i + 1 > Len(rows) THEN "write_statistics" ELSE pc
    /\ UNCHANGED <<rows, config, files, seriesVars, pagingVars>>

\* one iteration of the loop of calc_report_values
ProcessRow ==
    /\ pc = "calc_report_values"
    /\ i <= Len(rows)
    /\ LET r == process_row(rows[i], report_values, config)
       IN  /\ report_values' = r.rv
           /\ err' = r.exc
           /\ i' = i + 1
           /\ pc' = IF r.exc # "" THEN "failed"
                    ELSE IF i + 1 > Len(rows) THEN "write_statistics"
                    ELSE pc
    /\ UNCHANGED <<rows, config, files, seriesVars, pagingVars>>

WriteStatistics ==
    /\ pc = "write_statistics"
    /\ WriteFile("_statistics.csv",
                 [header |-> csv_headline_conv,
                  rows |-> generate_rows(report_values, get_start_date(rows, config),
                                         get_end_date(rows, config))])
    /\ pc' = "write_sd_distribution"
    /\ UNCHANGED <<rows, config, i, report_values, err, seriesVars, pagingVars>>

WriteSdDistribution ==
    /\ pc = "write_sd_distribution"
    /\ WriteFile("_days_distribution.csv",
                 serialize_sd_distribution(generate_days_distribution(report_values)))
    /\ pc' = "write_distribution"
    /\ UNCHANGED <<rows, config, i, report_values, err, seriesVars, pagingVars>>

WriteDistribution ==
    /\ pc = "write_distribution"
    /\ WriteFile("_distribution.csv",
                 [header |-> csv_headline_dist,
                  rows |-> serialize_distribution(generate_distribution(report_values))])
    /\ pc' = "write_biggies"
    /\ UNCHANGED <<rows, config, i, report_values, err, seriesVars, pagingVars>>

\* find_big_points runs before write_biggies opens its file
WriteBiggies ==
    /\ pc = "write_biggies"
    /\ LET b == find_big_points(rows, config)
       IN  IF b.exc # ""
           THEN /\ pc' = "failed"
                /\ err' = b.exc
                /\ files' = files
           ELSE /\ pc' = "write_board_days_bug"
                /\ err' = err
                /\ WriteFile("_biggies.csv", b.biggies)
    /\ UNCHANGED <<rows, config, i, report_values, seriesVars, pagingVars>>

\* the calls that follow write_biggies, in their order
ListingOrder ==
    <<"write_board_days_bug", "write_board_days_task", "write_board_days_story",
      "write_days_per_point_bug", "write_days_per_point_task",
      "write_days_per_point_story", "done">>

AfterListing(p) ==
    ListingOrder[(CHOOSE k \in 1..Len(ListingOrder) : ListingOrder[k] = p) + 1]

BoardDaysCall(t) ==
    CASE t = "bug" -> [pc |-> "write_board_days_bug", file |-> "_boarddays_bug.csv"]
      [] t = "task" -> [pc |-> "write_board_days_task", file |-> "_boarddays_task.csv"]
      [] t = "story" -> [pc |-> "write_board_days_story", file |-> "_boarddays_story.csv"]

DaysPerPointCall(t) ==
    CASE t = "bug" ->
            [pc |-> "write_days_per_point_bug", file |-> "_days_per_point_bug.csv"]
      [] t = "task" ->
            [pc |-> "write_days_per_point_task", file |-> "_days_per_point_task.csv"]
      [] t = "story" ->
            [pc |-> "write_days_per_point_story", file |-> "_days_per_point_story.csv"]

WriteBoardDays(t) ==
    /\ pc = BoardDaysCall(t).pc
    /\ WriteFile(BoardDaysCall(t).file, generate_board_days(report_values, t))
    /\ pc' = AfterListing(pc)
    /\ UNCHANGED <<rows, config, i, report_values, err, seriesVars, pagingVars>>

WriteDaysPerPoint(t) ==
    /\ pc = DaysPerPointCall(t).pc
    /\ WriteFile(DaysPerPointCall(t).file, generate_days_per_point(report_values, t))
    /\ pc' = AfterListing(pc)
    /\ UNCHANGED <<rows, config, i, report_values, err, seriesVars, pagingVars>>

Next ==
    \/ ColumnConfiguration
    \/ NoData
    \/ ProcessRow
    \/ WriteStatistics
    \/ WriteSdDistribution
    \/ WriteDistribution
    \/ WriteBiggies
    \/ \E t \in Types : WriteBoardDays(t)
    \/ \E t \in Types : WriteDaysPerPoint(t)

Spec == Init /\ [][Next]_vars

(***************************************************************************)
(* What the input says, read off the rows themselves: the data rows that   *)
(* calc_report_values has processed, and the day, type, cycle time and     *)
(* points of each.                                                         *)
(***************************************************************************)
Processed == IF config = <<>> THEN {} ELSE 2..(i - 1)

RowType(k) == lower(rows[k][config[ISSUETYPE_COL]].s)

RowResolved(k) == strptime(rows[k][config[RESOLVED_COL]])

RowBoard(k) == strptime(rows[k][config[BOARD_COL]])

RowDay(k) == FromOrdinal(RowResolved(k).dt.ord)

\* resolved day - board entry day + 1
RowCycle(k) == RowResolved(k).dt.ord - RowBoard(k).dt.ord + 1

RowKey(k) == rows[k][config[KEY_COL]].s

\* the points of a record, 0 when absent
RowPoints(k) ==
    LET c == rows[k][config[POINTS_COL]]
    IN  IF c.kind = "int" THEN c.n ELSE IF c.s = "" THEN 0 ELSE ParseFloat(c.s)

\* a record as the data model has it: parseable dates and a recognised type
ValidRow(k) == RowResolved(k).ok /\ RowBoard(k).ok /\ RowType(k) \in Types

RECURSIVE SumOver(_, _)
SumOver(S, f) ==
    IF S = {} THEN 0
    ELSE LET x == CHOOSE y \in S : TRUE IN f[x] + SumOver(S \ {x}, f)

\* day, type, cycle time and points of the processed records, as functions
RowDays == [k \in Processed |-> RowDay(k)]
RowTypes == [k \in Processed |-> RowType(k)]
RowCycles == [k \in Processed |-> RowCycle(k)]
RowPointsOf == [k \in Processed |-> RowPoints(k)]

\* the points sum of every (day, type) bucket of the processed records
BucketSums(day, typ, pts) ==
    [d \in {day[k] : k \in DOMAIN day}, t \in Types |->
        SumOver({k \in DOMAIN day : day[k] = d /\ typ[k] = t}, pts)]

\* the aggregation has been running without an exception
Aggregating == config # <<>> /\ err = ""

(***************************************************************************)
(* C1: for every day bucket of the aggregate and every issue type, the     *)
(* bucket's count equals the length of that type's board_days list, also   *)
(* on days on which issues of two or more types were resolved.             *)
(***************************************************************************)
C1_CountEqualsBoardDays ==
    Aggregating =>
        \A key \in Keys(report_values) : \A t \in Types :
            report_values.at[key].dicts[t].count = Len(board_days(report_values.at[key], t))

(***************************************************************************)
(* C6: the cycle-time distribution counts, at dist[p][d], exactly the      *)
(* story and task issues resolved on a day whose points sum for their type *)
(* is p > 0 and whose cycle time is d, each once; a bug never contributes. *)
(***************************************************************************)
Occurrences(dist, p, d) ==
    IF p \in Keys(dist) THEN (IF d \in Keys(dist.at[p]) THEN dist.at[p].at[d] ELSE 0)
    ELSE 0

C6_CycleTimeDistribution ==
    Aggregating =>
        LET dist == generate_days_distribution(report_values)
            day == RowDays
            typ == RowTypes
            cyc == RowCycles
            sum == BucketSums(day, typ, RowPointsOf)
            issuesAt(p, d) ==
                {k \in Processed :
                    /\ typ[k] \in {"story", "task"}
                    /\ sum[day[k], typ[k]] = p
                    /\ cyc[k] = d}
        IN  \A p \in Keys(dist) \cup {sum[day[k], typ[k]] : k \in Processed} :
                /\ p \in Keys(dist) => p > 0
                /\ \A d \in (IF p \in Keys(dist) THEN Keys(dist.at[p]) ELSE {})
                            \cup {cyc[k] : k \in Processed} :
                       p > 0 => Occurrences(dist, p, d) = Cardinality(issuesAt(p, d))

(***************************************************************************)
(* C7: the point distribution counts (day, type) buckets: dist[k][index of *)
(* t] is the number of days whose points sum for type t is k, a key k      *)
(* exists only if k > 0 and some bucket sums to k, and a day with several  *)
(* issues of one type counts once, at the key of their sum.  Stated after   *)
(* every processed row and where write_distribution reads the aggregate.   *)
(***************************************************************************)
C7_PointDistribution ==
    (Aggregating /\ pc \in {"calc_report_values", "write_distribution"}) =>
        LET dist == generate_distribution(report_values)
            sum == BucketSums(RowDays, RowTypes, RowPointsOf)
            buckets == DOMAIN sum
        IN  /\ Keys(dist) = {sum[b] : b \in buckets} \ {0}
            /\ \A k \in Keys(dist) : \A j \in 1..3 :
                 dist.at[k][j] =
                    Cardinality({b \in buckets : b[2] = DistTypes[j] /\ sum[b] = k})

\* write_distribution has written a day on which two bugs with points were resolved
C7_Witness ==
    /\ pc = "write_biggies"
    /\ \E k1, k2 \in Processed :
         /\ k1 # k2
         /\ RowDay(k1) = RowDay(k2)
         /\ RowType(k1) = "bug" /\ RowType(k2) = "bug"
         /\ RowPoints(k1) > 0 /\ RowPoints(k2) > 0
         /\ \E n \in 1..Len(files["_distribution.csv"].rows) :
              files["_distribution.csv"].rows[n] =
                 [points |-> RowPoints(k1) + RowPoints(k2), counts |-> <<1, 0, 0>>]

(***************************************************************************)
(* C5: aggregating the same data rows in another order.                    *)
(***************************************************************************)
DataPermutations ==
    {f \in [1..(Len(rows) - 1) -> 1..(Len(rows) - 1)] :
        \A a, b \in 1..(Len(rows) - 1) : f[a] = f[b] => a = b}

PermuteRows(f) == <<rows[1]>> \o [k \in 1..(Len(rows) - 1) |-> rows[f[k] + 1]]

SameBag(a, b) ==
    /\ Len(a) = Len(b)
    /\ \A n \in 1..Len(a) :
         Cardinality({k \in 1..Len(a) : a[k] = a[n]})
            = Cardinality({k \in 1..Len(b) : b[k] = a[n]})

SameUpToListOrder(x, y) ==
    /\ Keys(x) = Keys(y)
    /\ \A key \in Keys(x) : \A t \in Types :
         /\ x.at[key].dicts[t].count = y.at[key].dicts[t].count
         /\ x.at[key].dicts[t].points = y.at[key].dicts[t].points
         /\ SameBag(board_days(x.at[key], t), board_days(y.at[key], t))
         /\ SameBag(days_per_point(x.at[key], t), days_per_point(y.at[key], t))

SameLists(x, y) ==
    \A key \in Keys(x) \cap Keys(y) : \A t \in Types :
        /\ board_days(x.at[key], t) = board_days(y.at[key], t)
        /\ days_per_point(x.at[key], t) = days_per_point(y.at[key], t)

\* C5 as claimed: every order of the data rows yields the identical aggregate,
\* the cycle-time and days-per-point lists included
C5_IdenticalAggregate ==
    pc = "write_statistics" =>
        \A f \in DataPermutations :
            LET r == calc_report_values(PermuteRows(f), config)
            IN  /\ r.exc = ""
                /\ SameUpToListOrder(r.rv, report_values)
                /\ SameLists(r.rv, report_values)

\* C5 as amended: every order of the data rows yields the same day keys and, for
\* every day and type, the same count and points sum and the same entries in the
\* cycle-time and days-per-point lists, the order of the entries aside
C5_SameUpToListOrder ==
    pc = "write_statistics" =>
        \A f \in DataPermutations :
            LET r == calc_report_values(PermuteRows(f), config)
            IN  r.exc = "" /\ SameUpToListOrder(r.rv, report_values)

\* two records of one day have been aggregated, and another order of the rows
\* yields other lists
C5_Witness ==
    /\ pc = "write_statistics"
    /\ \E k1, k2 \in Processed : k1 # k2 /\ RowDay(k1) = RowDay(k2)
    /\ \E f \in DataPermutations :
         ~SameLists(calc_report_values(PermuteRows(f), config).rv, report_values)

(***************************************************************************)
(* C8: process_row on a valid record adds 1 to the count of its (day,      *)
(* type) bucket and appends one cycle-time entry with days = resolved day  *)
(* - board entry day + 1; without points (absent or 0) the points sum      *)
(* stays and no days-per-point entry is appended, with points > 0 the      *)
(* points are added and exactly one days-per-point entry is appended.      *)
(***************************************************************************)
C8_Effect ==
    LET key == RowDay(i)
        t == RowType(i)
        before == get_or_new(report_values, key)
        after == report_values'.at[key]
    IN  /\ key \in Keys(report_values')
        /\ after.dicts[t].count = before.dicts[t].count + 1
        /\ board_days(after, t) =
              Append(board_days(before, t), [issue_key |-> RowKey(i), days |-> RowCycle(i)])
        /\ IF RowPoints(i) = 0
           THEN /\ after.dicts[t].points = before.dicts[t].points
                /\ days_per_point(after, t) = days_per_point(before, t)
           ELSE /\ after.dicts[t].points = before.dicts[t].points + RowPoints(i)
                /\ Len(days_per_point(after, t)) = Len(days_per_point(before, t)) + 1

C8_ProcessRowEffect ==
    [][(pc = "calc_report_values" /\ ValidRow(i)) => C8_Effect]_vars

(***************************************************************************)
(* C9: a data row with an unparseable resolved or board-entry date or an   *)
(* unknown issue type, or a header that lacks a required column, ends the  *)
(* run with an error before any output file is opened; an output file is   *)
(* written only after the whole input has been aggregated without error.   *)
(***************************************************************************)
BadRowOfInput(cfg, k) ==
    \/ ~strptime(rows[k][cfg[RESOLVED_COL]]).ok
    \/ ~strptime(rows[k][cfg[BOARD_COL]]).ok
    \/ lower(rows[k][cfg[ISSUETYPE_COL]].s) \notin {"bug", "task", "story"}

BadInput ==
    /\ Len(rows) > 1
    /\ LET cfg == column_configuration(rows[1])
       IN  \/ \E c \in DOMAIN cfg : cfg[c] = 0
           \/ \E k \in 2..Len(rows) : BadRowOfInput(cfg, k)

SeriesFields ==
    [type : {"Bug", "Task", "Story"},
     points : {IntCell(0), IntCell(8)},
     resolved : {"30.12.20 17:45", "27.01.21 12:00"},
     board : {"29.12.20 08:00"}]

\* start_date and the whole days from its midnight to end_date: a long series from a
\* midnight, and short ones, also from a start_date with a time of day
SeriesRanges ==
    {<<"30.12.20 00:00", k>> : k \in {-2, -1, 0, 1, MaxSpan}}
        \cup {<<"31.12.20 10:30", k>> : k \in {-1, 0, 1, 2}}

InitSeries ==
    /\ RunIdle
    /\ PagingIdle
    /\ pc = "generate_rows"
    /\ \E n \in 0..MaxSeriesRows : \E fs \in [1..n -> SeriesFields] :
         report_values =
            calc_report_values(MakeInput(JiraHeader, fs),
                               column_configuration(JiraHeader)).rv
    /\ \E r \in SeriesRanges :
         /\ start_date = strptime(StrCell(r[1])).dt
         /\ end_date = AddDays(round_down_time(strptime(StrCell(r[1])).dt), r[2])
    /\ daycount = 0
    /\ rowcount = 1
    /\ windows = [c \in 1..6 |-> <<>>]
    /\ out = <<>>

\* the next row of generate_rows
YieldRow ==
    /\ pc = "generate_rows"
    /\ daycount < daterange_len(start_date, end_date)
    /\ LET st == generate_rows_step(
                    timeseries_row(report_values, daterange_at(start_date, daycount)),
                    windows, rowcount)
       IN  /\ out' = Append(out, st.row)
           /\ windows' = st.windows
           /\ rowcount' = st.rowcount
    /\ daycount' = daycount + 1
    /\ UNCHANGED <<pc, report_values, start_date, end_date, runVars, pagingVars>>

\* daterange is exhausted: the generator returns
SeriesExhausted ==
    /\ pc = "generate_rows"
    /\ daycount >= daterange_len(start_date, end_date)
    /\ pc' = "done"
    /\ UNCHANGED <<report_values, seriesVars, runVars, pagingVars>>

NextSeries == YieldRow \/ SeriesExhausted

SpecSeries == InitSeries /\ [][NextSeries]_vars

(***************************************************************************)
(* C2: generate_timeseries emits (end_date - start_date).days + 1 rows     *)
(* when end_date >= start_date and none when end_date < start_date, one    *)
(* per calendar day, ascending without a gap; a day of the aggregate       *)
(* carries its six counters, any other day six zeros.                      *)
(***************************************************************************)
Minutes(d) == d.ord * 1440 + d.hour * 60 + d.minute

ExpectedRowCount ==
    IF Minutes(end_date) >= Minutes(start_date)
    THEN ((Minutes(end_date) - Minutes(start_date)) \div 1440) + 1
    ELSE 0

\* the calendar day after <<dd, mm, yyyy>>
NextDay(k) ==
    IF k[1] < DaysInMonth(k[3], k[2]) THEN <<k[1] + 1, k[2], k[3]>>
    ELSE IF k[2] < 12 THEN <<1, k[2] + 1, k[3]>>
    ELSE <<1, 1, k[3] + 1>>

SixCounters(key) ==
    IF key \in Keys(report_values)
    THEN <<report_values.at[key].dicts["bug"].count,
           report_values.at[key].dicts["bug"].points,
           report_values.at[key].dicts["task"].count,
           report_values.at[key].dicts["task"].points,
           report_values.at[key].dicts["story"].count,
           report_values.at[key].dicts["story"].points>>
    ELSE <<0, 0, 0, 0, 0, 0>>

C2_GapFreeSeries ==
    /\ Len(out) <= ExpectedRowCount
    /\ pc = "done" => Len(out) = ExpectedRowCount
    /\ Len(out) >= 1 => out[1].date = FromOrdinal(start_date.ord)
    /\ \A n \in 1..(Len(out) - 1) : out[n + 1].date = NextDay(out[n].date)
    /\ \A n \in 1..Len(out) : out[n].raw = SixCounters(out[n].date)

\* a whole series across the turn of the year, with a day of the aggregate after
\* days that are not in it
C2_Witness ==
    /\ pc = "done"
    /\ Len(out) = MaxSpan + 1
    /\ \E n \in 2..Len(out) :
         /\ out[n].date \in Keys(report_values)
         /\ out[n].raw # <<0, 0, 0, 0, 0, 0>>
         /\ out[n - 1].date \notin Keys(report_values)
         /\ out[n].date[3] = out[1].date[3] + 1

(***************************************************************************)
(* C3: the moving average of a column in the i-th row is 0 when i < W and  *)
(* the mean of the column's raw values in rows i-W+1 .. i when i >= W.     *)
(***************************************************************************)
RECURSIVE RawSum(_, _, _)
RawSum(c, from, to) ==
    IF from > to THEN 0 ELSE out[from].raw[c] + RawSum(c, from + 1, to)

ExpectedAvg(n, c) ==
    IF n < MOVING_AVG_INTERVAL THEN <<0, 1>>
    ELSE Frac(RawSum(c, n - MOVING_AVG_INTERVAL + 1, n), MOVING_AVG_INTERVAL)

C3_MovingAverage ==
    \A n \in 1..Len(out) : \A c \in 1..6 : out[n].avg[c] = ExpectedAvg(n, c)

\* rows W and W + 1 have been emitted and their averages differ
C3_Witness ==
    /\ Len(out) > MOVING_AVG_INTERVAL
    /\ out[MOVING_AVG_INTERVAL].avg[1] # <<0, 1>>
    /\ out[MOVING_AVG_INTERVAL + 1].avg[1] # out[MOVING_AVG_INTERVAL].avg[1]
    /\ out[MOVING_AVG_INTERVAL - 1].raw[1] = 0
    /\ out[1].raw[1] > 0

(***************************************************************************)
(* C4: each p/c ratio of a row is 0.0 when the type's averaged count is 0  *)
(* and the averaged points divided by the averaged count otherwise; it is  *)
(* taken from the averages of the row, never from the raw values, so it is *)
(* 0.0 in every warm-up row.                                               *)
(***************************************************************************)
ExpectedRatio(n, j) ==
    LET cnt == ExpectedAvg(n, 2 * j - 1)
        pts == ExpectedAvg(n, 2 * j)
    IN  IF cnt[1] = 0 THEN <<0, 1>>
        ELSE Frac(pts[1] * cnt[2], pts[2] * cnt[1])

C4_Ratios ==
    \A n \in 1..Len(out) :
        /\ Len(out[n].rel) = 3
        /\ \A j \in 1..3 : out[n].rel[j] = ExpectedRatio(n, j)
        /\ n < MOVING_AVG_INTERVAL => \A j \in 1..3 : out[n].rel[j] = <<0, 1>>

\* a warm-up row with raw bug points and ratio 0, and a later row whose bug ratio
\* is not 0 while its task ratio is 0
C4_Witness ==
    /\ Len(out) >= MOVING_AVG_INTERVAL
    /\ out[1].raw[1] > 0 /\ out[1].raw[2] > 0 /\ out[1].rel[1] = <<0, 1>>
    /\ out[MOVING_AVG_INTERVAL].rel[1][1] > 0
    /\ out[MOVING_AVG_INTERVAL].avg[3] = <<0, 1>>
    /\ out[MOVING_AVG_INTERVAL].rel[2] = <<0, 1>>

(***************************************************************************)
(* get_issues as a state machine.  The server holds a fixed result list    *)
(* and answers a search with the page that starts at startAt; the size of  *)
(* a page is the server's choice, at least 1 while issues are left.  Every *)
(* search returns, and the loop is the only thing running.                 *)
(***************************************************************************)
Min2(a, b) == IF a <= b THEN a ELSE b

\* session.search_issues(..., startAt = startAt) when the server pages by size
search_issues(startAt, size) ==
    SubSeq(server, startAt + 1, Min2(startAt + size, Len(server)))

\* a start that counts requests in place of issues
next_start_by_request(s, page) == s + 1

\* start += len(issues)
next_start(s, page) == s + Len(page)

InitPaging ==
    /\ RunIdle
    /\ SeriesIdle
    /\ report_values = EmptyDict
    /\ pc = "get_issues"
    /\ \E n \in 0..MaxIssues : \E f \in [1..n -> 1..MaxIssues] :
         /\ \A a, b \in 1..n : f[a] = f[b] => a = b
         /\ server = [k \in 1..n |-> IssueKey(f[k])]
    /\ issues = <<>>
    /\ start = 0
    /\ result = <<>>

\* a search that returns issues: they are collected and start moves on
FetchPage ==
    /\ pc = "get_issues"
    /\ \E size \in 1..MaxPage :
         /\ Len(search_issues(start, size)) # 0
         /\ issues' = search_issues(start, size)
         /\ result' = result \o search_issues(start, size)
         /\ start' = next_start(start, search_issues(start, size))
    /\ UNCHANGED <<pc, server, report_values, runVars, seriesVars>>

\* a search that returns nothing: break, return result
EmptyPage ==
    /\ pc = "get_issues"
    /\ \E size \in 1..MaxPage :
         /\ Len(search_issues(start, size)) = 0
         /\ issues' = search_issues(start, size)
    /\ pc' = "returned"
    /\ UNCHANGED <<server, start, result, report_values, runVars, seriesVars>>

NextPaging == FetchPage \/ EmptyPage

SpecPaging == InitPaging /\ [][NextPaging]_vars /\ WF_vars(NextPaging)

(***************************************************************************)
(* C10: get_issues terminates and returns every issue of the server's      *)
(* result list exactly once, in the server's order, whatever the sizes of  *)
(* the pages.                                                              *)
(***************************************************************************)
C10_PagingComplete ==
    /\ <>(pc = "returned")
    /\ [](pc = "returned" => result = server)
    /\ [](Len(result) <= Len(server) /\ result = SubSeq(server, 1, Len(result)))

\* the loop has returned after collecting a result list of the largest length
C10_Witness ==
    /\ pc = "returned"
    /\ Len(server) = MaxIssues
    /\ Len(result) = MaxIssues
    /\ start = MaxIssues

(***************************************************************************)
(* The time series of a whole run: the rows write_statistics has written   *)
(* to the statistics file, from the first data row's day to the last data  *)
(* row's day.                                                              *)
(***************************************************************************)
StatisticsWritten == "_statistics.csv" \in DOMAIN files

StatisticsRows == files["_statistics.csv"].rows

DataRows == 2..Len(rows)

\* the data rows are in ascending order of resolved date
SortedByResolved ==
    \A k \in DataRows : \A l \in DataRows :
        k < l => Minutes(RowResolved(k).dt) <= Minutes(RowResolved(l).dt)

\* the columns of a type's count and points among the six raw values of a row
CountColumn(t) == CASE t = "bug" -> 1 [] t = "task" -> 3 [] t = "story" -> 5

PointsColumn(t) == CountColumn(t) + 1

ColumnSum(series, c) == SumSeq([j \in 1..Len(series) |-> series[j].raw[c]])

RecordsOfType(t) == {k \in DataRows : RowType(k) = t}

(***************************************************************************)
(* C11: when the data rows are in ascending order of resolved date, no     *)
(* record is lost from the time series: for each issue type the count      *)
(* column of the rows of generate_rows sums to the number of input records *)
(* of that type, and its points column to the sum of those records'        *)
(* points.                                                                 *)
(***************************************************************************)
C11_NoRecordLost ==
    (StatisticsWritten /\ SortedByResolved) =>
        \A t \in Types :
            /\ ColumnSum(StatisticsRows, CountColumn(t)) = Cardinality(RecordsOfType(t))
            /\ ColumnSum(StatisticsRows, PointsColumn(t))
                 = SumOver(RecordsOfType(t), [k \in DataRows |-> RowPoints(k)])

\* a written series of two days across the year's end, from sorted rows of
\* different types, the first with points
C11_Witness ==
    /\ StatisticsWritten
    /\ SortedByResolved
    /\ Len(rows) = 3
    /\ RowDay(2) = <<31, 12, 2020>>
    /\ RowDay(3) = <<1, 1, 2021>>
    /\ RowType(2) # RowType(3)
    /\ RowPoints(2) = 8
    /\ Len(StatisticsRows) = 2

\* the sums whatever the order of the rows: rows in descending order give an
\* empty or shortened series
C11_NoRecordLostAnyOrder ==
    StatisticsWritten =>
        \A t \in Types :
            ColumnSum(StatisticsRows, CountColumn(t)) = Cardinality(RecordsOfType(t))

====
